---- MODULE Spec2Model ----
(***************************************************************************)
(* The synchronized image viewer of src/app.py (four panels) and           *)
(* src/_app.py (two panels): the browser-side view model embedded in       *)
(* INDEX_HTML (panel slots, canonical image size, the shared transform,    *)
(* the asynchronous uploads) as a state machine.                           *)
(*                                                                         *)
(* JavaScript numbers are modelled as exact rationals <<n, d>> in lowest   *)
(* terms with d > 0: 1.1 is 11/10, 0.9 is 9/10, 0.05 is 1/20.              *)
(*                                                                         *)
(* Spec is the page in the browser, where a file stands for the answer    *)
(* the server gives for it (Files). SpecServer is the Flask process       *)
(* answering POST /api/upload/<side>: load_tif_or_image,                   *)
(* select_display_array, normalize_to_uint8 and array_to_png_bytes on      *)
(* numpy arrays given by dtype, shape and elements.                        *)
(***************************************************************************)
EXTENDS Integers, Sequences, FiniteSets, TLC

\* Bound of the model (not a program constant): the number of handler runs in
\* a behaviour. A wheel, mouse, reset or resize event is one handler run; a
\* file choice is three (the 'change' listener, the continuation of
\* uploadAndLoad after its fetch, and img.onload), booked when the file is
\* chosen so that every load that starts can complete.
MaxRuns == 8

----------------------------------------------------------------------------
\* Exact rational arithmetic standing for the JavaScript number operations.

Abs(a) == IF a < 0 THEN -a ELSE a

RECURSIVE Gcd(_, _)
Gcd(a, b) == IF b = 0 THEN a ELSE Gcd(b, a % b)

Rat(n, d) ==
    LET s == IF d < 0 THEN -1 ELSE 1
        g == Gcd(Abs(n), Abs(d))
    IN  <<(s * n) \div g, (s * d) \div g>>

Num(k) == <<k, 1>>

Neg(p) == <<-p[1], p[2]>>

Add(p, q) ==
    LET g == Gcd(p[2], q[2])
    IN  Rat(p[1] * (q[2] \div g) + q[1] * (p[2] \div g), (p[2] \div g) * q[2])

Sub(p, q) == Add(p, Neg(q))

Mul(p, q) ==
    LET g1 == Gcd(Abs(p[1]), q[2])
        g2 == Gcd(Abs(q[1]), p[2])
    IN  Rat((p[1] \div g1) * (q[1] \div g2), (p[2] \div g2) * (q[2] \div g1))

\* p / q for q # 0
Div(p, q) == Mul(p, IF q[1] < 0 THEN <<-q[2], -q[1]>> ELSE <<q[2], q[1]>>)

Less(p, q) == p[1] * q[2] < q[1] * p[2]

MathMin(p, q) == IF Less(q, p) THEN q ELSE p

----------------------------------------------------------------------------
\* The environment: which page is served, the files the user can choose, the
\* layouts the browser can give the first canvas, and the pointer positions.

Viewers == {"app", "_app"}

\* const sides = ['tl', 'tr', 'bl', 'br'] / the 'left' and 'right' inputs
sides(v) == IF v = "app" THEN {"tl", "tr", "bl", "br"} ELSE {"left", "right"}

\* The file inputs the user picks files with in the behaviours explored: both
\* inputs of _app.py, and two of the four of app.py (the one of the first
\* canvas, whose rect resetView reads, and one other; the four slots are
\* handled by the same code).
inputs(v) == IF v = "app" THEN {"tl", "br"} ELSE {"left", "right"}

\* A file is what POST /api/upload answers for it: ok with a PNG of
\* width x height, or an error status.
Files ==
    { [name |-> "a", ok |-> TRUE,  width |-> 2, height |-> 2],
      [name |-> "b", ok |-> TRUE,  width |-> 200, height |-> 2],
      [name |-> "x", ok |-> FALSE, width |-> 0, height |-> 0] }

\* getBoundingClientRect() of the first canvas: <<width, height>>
Areas == { <<8, 6>>, <<38, 40>> }

\* the layout the page is opened in; the other layout is reached by a resize
InitialArea == <<8, 6>>

\* event.clientX, event.clientY
Clients == { <<9, 30>>, <<14, 27>> }

\* rect.left, rect.top of the canvas an event is delivered to
Origins == { <<9, 27>> }

----------------------------------------------------------------------------
VARIABLES
    viewer,     \* which page runs: "app" (four panels) or "_app" (two panels)
    images,     \* images[side]: the Image shown in a slot (imgLeft/imgRight in _app)
    imgWidth,   \* canonical width, 0 for null
    imgHeight,  \* canonical height, 0 for null
    scale,      \* shared view state
    offsetX,
    offsetY,
    isPanning,
    lastX,      \* lastClientX / lastX
    lastY,      \* lastClientY / lastY
    rectW,      \* getBoundingClientRect().width of the first canvas
    rectH,      \* getBoundingClientRect().height of the first canvas
    drawn,      \* drawn[side]: what the canvas of a slot shows, and under which transform
    loads,      \* the calls of uploadAndLoad, in the order they were started
    nIn,        \* number of handler runs booked so far (see MaxRuns)
    ev          \* the wheel event, when the handler that ran last was handleWheel

\* The Flask process (the Python half of app.py / _app.py)
VARIABLES
    request,    \* the POST /api/upload/<side> received last, NoRequest before the first
    response,   \* what upload(side) returned for it, NoResponse until it returns
    pipe,       \* the values upload(side) computed on the way: arr, arr_disp, raster
    first       \* the first request answered, with the answer it got

server == <<request, response, pipe, first>>

vars == <<viewer, images, imgWidth, imgHeight, scale, offsetX, offsetY, isPanning,
          lastX, lastY, rectW, rectH, drawn, loads, nIn, ev, server>>

\* images = { tl: null, ... }: a slot without an image
NoImage == [id |-> 0, width |-> 0, height |-> 0]

\* a canvas after ctx.setTransform(1, 0, 0, 1, 0, 0); ctx.clearRect(...)
Cleared == [img |-> 0, scale |-> Num(1), offsetX |-> Num(0), offsetY |-> Num(0)]

NoEvent == [kind |-> "none", zoomIn |-> FALSE]

\* a wheel event; zoomIn is event.deltaY < 0
WheelEvent(z) == [kind |-> "wheel", zoomIn |-> z]

\* The Image that the load loads[i] decodes: its pixel size is the size of the
\* PNG the server answered with; its identity is the load it came from.
ImageOf(i) == [id |-> i, width |-> loads[i].file.width, height |-> loads[i].file.height]

minScale == <<1, 20>>
maxScale == <<20, 1>>
zoomInFactor == <<11, 10>>
zoomOutFactor == <<9, 10>>

----------------------------------------------------------------------------
\* The Python half: numpy arrays and the three helpers of POST /api/upload.
\*
\* An array is [dtype, shape, at]: at maps every index tuple (0-based, one
\* component per axis) to the element there. Elements are rationals; NaN is
\* the pair <<0, 0>>. A call that raises yields Raised(the exception's name).

NaN == <<0, 0>>

IsNaN(v) == v[2] = 0

Raised(e) == [exc |-> e]

IsRaised(r) == "exc" \in DOMAIN r

RECURSIVE Indices(_)
Indices(shape) ==
    IF shape = <<>>
    THEN { <<>> }
    ELSE { <<i>> \o r : i \in 0..(shape[1] - 1), r \in Indices(Tail(shape)) }

RECURSIVE Product(_)
Product(shape) == IF shape = <<>> THEN 1 ELSE shape[1] * Product(Tail(shape))

\* position of an index tuple in row-major (C) order
RECURSIVE Lin(_, _)
Lin(shape, i) ==
    IF shape = <<>> THEN 0 ELSE i[1] * Product(Tail(shape)) + Lin(Tail(shape), Tail(i))

Array(dtype, shape, at) == [dtype |-> dtype, shape |-> shape, at |-> at]

ndim(a) == Len(a.shape)

size(a) == Product(a.shape)

\* arr[k0, k1, ...]: the leading axes fixed at the indices pre
Item(a, pre) ==
    LET sh == SubSeq(a.shape, Len(pre) + 1, Len(a.shape))
    IN  Array(a.dtype, sh, [i \in Indices(sh) |-> a.at[pre \o i]])

\* arr[:3, :, :]
firstThreeOfAxis0(a) ==
    LET sh == <<IF a.shape[1] < 3 THEN a.shape[1] ELSE 3>> \o Tail(a.shape)
    IN  Array(a.dtype, sh, [i \in Indices(sh) |-> a.at[i]])

\* arr[..., :3]
firstThreeOfLastAxis(a) ==
    LET n == Len(a.shape)
        sh == SubSeq(a.shape, 1, n - 1) \o <<IF a.shape[n] < 3 THEN a.shape[n] ELSE 3>>
    IN  Array(a.dtype, sh, [i \in Indices(sh) |-> a.at[i]])

\* np.moveaxis(a, 0, -1) of a rank-3 array
moveaxis(a) ==
    LET sh == <<a.shape[2], a.shape[3], a.shape[1]>>
    IN  Array(a.dtype, sh, [i \in Indices(sh) |-> a.at[<<i[3], i[1], i[2]>>]])

\* the index of the unsqueezed array that an index of np.squeeze's result reads
RECURSIVE Unsqueeze(_, _)
Unsqueeze(shape, i) ==
    IF shape = <<>> THEN <<>>
    ELSE IF shape[1] = 1 THEN <<0>> \o Unsqueeze(Tail(shape), i)
    ELSE <<i[1]>> \o Unsqueeze(Tail(shape), Tail(i))

\* np.squeeze(a): the axes of length one removed
squeeze(a) ==
    LET sh == SelectSeq(a.shape, LAMBDA n : n # 1)
    IN  Array(a.dtype, sh, [i \in Indices(sh) |-> a.at[Unsqueeze(a.shape, i)]])

\* select_display_array with the (H, W, C) rule tried before the (C, H, W) rule
select_display_arrayChannelLastFirst(arr) ==
    IF ndim(arr) = 2 THEN arr
    ELSE IF ndim(arr) = 4
    THEN IF arr.shape[1] = 0 \/ arr.shape[2] = 0
         THEN Raised("IndexError") ELSE Item(arr, <<0, 0>>)
    ELSE IF ndim(arr) = 3 /\ arr.shape[3] <= 16
    THEN IF arr.shape[3] <= 4 THEN arr ELSE firstThreeOfLastAxis(arr)
    ELSE IF ndim(arr) = 3 /\ arr.shape[1] <= 16 /\ arr.shape[2] = arr.shape[3]
    THEN IF arr.shape[1] = 1 THEN Item(arr, <<0>>)
         ELSE moveaxis(firstThreeOfAxis0(arr))
    ELSE IF ndim(arr) = 0 \/ arr.shape[1] = 0
         THEN Raised("IndexError") ELSE squeeze(Item(arr, <<0>>))

\* def select_display_array(arr)
select_display_array(arr) ==
    IF ndim(arr) = 2 THEN arr
    ELSE IF ndim(arr) = 4
    THEN \* arr[0, 0]: IndexError when the Z or the C axis has length 0
         IF arr.shape[1] = 0 \/ arr.shape[2] = 0
         THEN Raised("IndexError") ELSE Item(arr, <<0, 0>>)
    ELSE IF ndim(arr) = 3 /\ arr.shape[1] <= 16 /\ arr.shape[2] = arr.shape[3]
    THEN IF arr.shape[1] = 1 THEN Item(arr, <<0>>)
         ELSE moveaxis(firstThreeOfAxis0(arr))
    ELSE IF ndim(arr) = 3 /\ arr.shape[3] <= 16
    THEN IF arr.shape[3] <= 4 THEN arr ELSE firstThreeOfLastAxis(arr)
    ELSE \* np.squeeze(arr[0]): IndexError on a 0-d array or an empty first axis
         IF ndim(arr) = 0 \/ arr.shape[1] = 0
         THEN Raised("IndexError") ELSE squeeze(Item(arr, <<0>>))

\* arr.astype("float32") of one element: an integer beyond 2^24 is rounded to
\* the nearest float32 (a multiple of 2 below 2^25, ties to even). Fractions
\* (the means of 8-bit values) are kept exact.
float32(v) ==
    IF IsNaN(v) \/ v[2] # 1 \/ Abs(v[1]) <= 16777216 THEN v
    ELSE LET a == Abs(v[1])
             r == IF a % 2 = 0 THEN a ELSE IF a % 4 = 1 THEN a - 1 ELSE a + 1
         IN  <<IF v[1] < 0 THEN -r ELSE r, 1>>

\* the elements of an array that are not NaN
Finite(a) == { a.at[i] : i \in { j \in DOMAIN a.at : ~IsNaN(a.at[j]) } }

\* np.nanmin / np.nanmax of a non-empty array: NaN when every element is NaN
nanmin(a) ==
    IF Finite(a) = {} THEN NaN
    ELSE CHOOSE m \in Finite(a) : \A x \in Finite(a) : ~Less(x, m)

nanmax(a) ==
    IF Finite(a) = {} THEN NaN
    ELSE CHOOSE m \in Finite(a) : \A x \in Finite(a) : ~Less(m, x)

\* np.clip(x, 0, 1)
clip(v) ==
    IF IsNaN(v) THEN v
    ELSE IF Less(v, Num(0)) THEN Num(0)
    ELSE IF Less(Num(1), v) THEN Num(1) ELSE v

\* .astype("uint8") of a value in [0, 255]: the fraction is dropped. The cast
\* of NaN is undefined: it gives the byte u.
uint8(v, u) == IF IsNaN(v) THEN Num(u) ELSE Num(v[1] \div v[2])

\* def normalize_to_uint8(arr); u is the byte a cast of NaN gives
normalize_to_uint8(arr, u) ==
    IF arr.dtype = "uint8" THEN arr
    ELSE LET f == [arr EXCEPT !.dtype = "float32",
                              !.at = [i \in DOMAIN arr.at |-> float32(arr.at[i])]]
             vmin == nanmin(f)
             vmax == nanmax(f)
             unit(x) == IF IsNaN(x) \/ IsNaN(vmin) THEN NaN
                        ELSE clip(Div(Sub(x, vmin), Sub(vmax, vmin)))
             byte(x) == IF IsNaN(unit(x)) THEN uint8(NaN, u)
                        ELSE uint8(Mul(unit(x), Num(255)), u)
         IN  IF size(arr) = 0
             THEN \* np.nanmin of a zero-size array
                  Raised("ValueError")
             ELSE IF ~IsNaN(vmin) /\ vmax = vmin
             THEN Array("uint8", arr.shape, [i \in DOMAIN arr.at |-> Num(0)])
             ELSE Array("uint8", arr.shape, [i \in DOMAIN arr.at |-> byte(f.at[i])])

\* a[i, 0] + ... + a[i, n - 1]
RECURSIVE SumLast(_, _, _)
SumLast(a, i, n) ==
    IF n = 0 THEN Num(0) ELSE Add(SumLast(a, i, n - 1), a.at[i \o <<n - 1>>])

\* np.mean(arr, axis=-1): AxisError on a 0-d array, NaN over an empty axis
mean(a) ==
    IF ndim(a) = 0 THEN Raised("AxisError")
    ELSE LET n == a.shape[Len(a.shape)]
             sh == SubSeq(a.shape, 1, Len(a.shape) - 1)
         IN  Array("float64", sh,
                   [i \in Indices(sh) |->
                       IF n = 0 THEN NaN ELSE Div(SumLast(a, i, n), Num(n))])

\* Image.fromarray(arr, mode=mode) and img.save(buf, format="PNG"): Pillow
\* takes at most 2 axes for "L", 3 for "RGB", 4 for "RGBA", and reads the
\* size off shape[1], shape[0].
fromarray(a, mode) ==
    LET ndmax == IF mode = "L" THEN 2 ELSE IF mode = "RGB" THEN 3 ELSE 4
    IN  IF ndim(a) > ndmax THEN Raised("ValueError")
        ELSE IF ndim(a) = 0 THEN Raised("IndexError")
        ELSE [mode   |-> mode,
              width  |-> IF ndim(a) = 1 THEN 1 ELSE a.shape[2],
              height |-> a.shape[1],
              pixels |-> a.at]

\* def array_to_png_bytes(arr)
array_to_png_bytes(arr, u) ==
    LET a == normalize_to_uint8(arr, u)
    IN  IF IsRaised(a) THEN a
        ELSE IF ndim(a) = 2 THEN fromarray(a, "L")
        ELSE IF ndim(a) = 3 /\ a.shape[3] = 3 THEN fromarray(a, "RGB")
        ELSE IF ndim(a) = 3 /\ a.shape[3] = 4 THEN fromarray(a, "RGBA")
        ELSE LET m == mean(a)
             IN  IF IsRaised(m) THEN m
                 ELSE LET g == normalize_to_uint8(m, u)
                      IN  IF IsRaised(g) THEN g ELSE fromarray(g, "L")

\* name_lower.endswith(".tif") or ... (".tiff", ".ome.tif", ".ome.tiff")
TiffNames == { "a.tif", "B.OME.TIFF" }

\* def load_tif_or_image(file_storage): tifffile reads TIFF data only; Pillow
\* tells the format from the data and fails on data it does not know.
load_tif_or_image(file_storage) ==
    IF file_storage.filename \in TiffNames
    THEN IF file_storage.format = "tiff"
         THEN file_storage.arr ELSE Raised("TiffFileError")
    ELSE IF file_storage.format = "junk"
         THEN Raised("UnidentifiedImageError") ELSE file_storage.arr

\* a value the handler did not get as far as computing
None == [none |-> TRUE]

NoPng == [mode |-> "", width |-> 0, height |-> 0, pixels |-> <<>>]

\* the values of the try block of upload(side): arr, arr_disp, the raster
\* array_to_png_bytes starts from (its line 96), and png_buf
uploadTry(file_storage, u) ==
    LET arr == load_tif_or_image(file_storage)
        arr_disp == IF IsRaised(arr) THEN None ELSE select_display_array(arr)
        reached == ~IsRaised(arr) /\ ~IsRaised(arr_disp)
    IN  [arr      |-> arr,
         arr_disp |-> arr_disp,
         raster   |-> IF reached THEN normalize_to_uint8(arr_disp, u) ELSE None,
         png_buf  |-> IF reached THEN array_to_png_bytes(arr_disp, u) ELSE None]

\* the exception the try block ends with, "" when it ends normally
excOf(t) ==
    IF IsRaised(t.arr) THEN t.arr.exc
    ELSE IF IsRaised(t.arr_disp) THEN t.arr_disp.exc
    ELSE IF IsRaised(t.png_buf) THEN t.png_buf.exc
    ELSE ""

Response(status, text, png) == [status |-> status, text |-> text, png |-> png]

\* upload(side) without its try/except: an exception leaves the view function.
uploadNoTry(side, req, u) ==
    IF ~req.hasFile THEN Response(400, "No file uploaded", NoPng)
    ELSE IF req.filename = "" THEN Response(400, "No filename", NoPng)
    ELSE LET t == uploadTry(req, u)
         IN  IF excOf(t) # ""
             THEN Response(500, "Internal Server Error", NoPng)
             ELSE Response(200, "image/png", t.png_buf)

\* @app.post("/api/upload/<side>") def upload(side)
upload(side, req, u) ==
    IF ~req.hasFile THEN Response(400, "No file uploaded", NoPng)
    ELSE IF req.filename = "" THEN Response(400, "No filename", NoPng)
    ELSE LET t == uploadTry(req, u)
         IN  IF excOf(t) # ""
             THEN Response(500, "Error: " \o excOf(t), NoPng)
             ELSE Response(200, "image/png", t.png_buf)

\* request.file is the number of the upload posted
NoRequest == [side |-> "", file |-> 0]

NoResponse == Response(0, "", NoPng)

NoPipe == [arr |-> None, arr_disp |-> None, raster |-> None, png_buf |-> None]

----------------------------------------------------------------------------
\* The arrays tifffile / Pillow decode the uploaded files to.
Ramp(dtype, shape, base, step) ==
    Array(dtype, shape, [i \in Indices(shape) |-> Num(base + step * Lin(shape, i))])

FromList(dtype, shape, vals) ==
    Array(dtype, shape, [i \in Indices(shape) |-> Num(vals[Lin(shape, i) + 1])])

\* shapes of every rank from 0 to 5, with and without an empty axis, around
\* the thresholds 1, 3, 4 and 16 of select_display_array
Shapes8 ==
    << <<>>, <<3>>, <<2, 3>>, <<3, 2, 2>>, <<0, 2, 2>>, <<2, 3, 4>>, <<2, 3, 1>> >>

Shapes16 ==
    << <<1, 2, 2>>, <<2, 2, 2>>, <<5, 2, 2>>, <<10, 1, 1>>, <<2, 3, 5>>, <<2, 3, 2>>,
       <<1, 1, 17>>, <<1, 2, 17>>, <<17, 1, 2>>, <<0, 1, 17>>, <<0, 2, 2>>,
       <<2, 2, 2, 3>>, <<0, 2, 2, 3>>, <<1, 2, 2, 2, 2>>, <<2, 1, 1, 2, 3>> >>

\* request.files["file"]: the file part of the form, if there is one
NoFilePart == [hasFile |-> FALSE, filename |-> "", format |-> "", arr |-> None]

FileStorage(filename, format, arr) ==
    [hasFile |-> TRUE, filename |-> filename, format |-> format, arr |-> arr]

\* The uploads tried, numbered: a request without a file part, files without
\* a name, with the wrong or no image data, and TIFF and PNG files of the
\* arrays above.
Uploads ==
    << NoFilePart,
       FileStorage("", "tiff", Ramp("uint8", <<2, 3>>, 0, 7)),
       FileStorage("B.OME.TIFF", "tiff", Ramp("uint16", <<2, 2, 2, 3>>, 1000, 100)),
       FileStorage("a.tif", "png", Ramp("uint8", <<3, 2>>, 10, 40)),
       FileStorage("c.png", "junk", None),
       FileStorage("c.png", "png", Ramp("uint8", <<3, 2>>, 10, 40)),
       FileStorage("c.png", "png", Ramp("uint8", <<2, 3, 4>>, 0, 9)),
       FileStorage("a.tif", "tiff", FromList("uint16", <<1, 3>>, <<1000, 3000, 5000>>)),
       FileStorage("a.tif", "tiff", Ramp("uint16", <<2, 2>>, 7, 0)),
       FileStorage("a.tif", "tiff", Ramp("int16", <<2, 2>>, -3, 2)),
       FileStorage("a.tif", "tiff",
                   FromList("int32", <<2, 2>>, <<16777216, 16777217, 16777218, 16777220>>)) >>
    \o [k \in 1..Len(Shapes8) |->
           FileStorage("a.tif", "tiff", Ramp("uint8", Shapes8[k], 0, 7))]
    \o [k \in 1..Len(Shapes16) |->
           FileStorage("a.tif", "tiff", Ramp("uint16", Shapes16[k], 1000, 100))]

\* the bytes a cast of NaN to uint8 is taken to give (any byte is possible)
NaNCasts == { 0, 128, 255 }

----------------------------------------------------------------------------
\* let images = ..., imgWidth = null, scale = 1.0, offsetX = 0, ... ;
\* resizeCanvases(); draw() on an empty page leaves every canvas cleared.
Init ==
    /\ viewer \in Viewers
    /\ images = [s \in sides(viewer) |-> NoImage]
    /\ imgWidth = 0
    /\ imgHeight = 0
    /\ scale = Num(1)
    /\ offsetX = Num(0)
    /\ offsetY = Num(0)
    /\ isPanning = FALSE
    /\ lastX = 0
    /\ lastY = 0
    /\ rectW = InitialArea[1]
    /\ rectH = InitialArea[2]
    /\ drawn = [s \in sides(viewer) |-> Cleared]
    /\ loads = <<>>
    /\ nIn = 0
    /\ ev = NoEvent
    /\ request = NoRequest
    /\ response = NoResponse
    /\ pipe = NoPipe
    /\ first = NoRequest

----------------------------------------------------------------------------
\* resetView with Math.max for Math.min: the image is made to cover the area.
resetViewMax(iw, ih, rw, rh, t) ==
    IF iw = 0 \/ ih = 0
    THEN t
    ELSE LET scaleX == Div(Num(rw), Num(iw))
             scaleY == Div(Num(rh), Num(ih))
             sc == IF Less(scaleX, scaleY) THEN scaleY ELSE scaleX
         IN  [scale   |-> sc,
              offsetX |-> Div(Sub(Num(rw), Mul(Num(iw), sc)), Num(2)),
              offsetY |-> Div(Sub(Num(rh), Mul(Num(ih), sc)), Num(2))]

\* resetView leaving the image at the top-left corner instead of centering it.
resetViewNoCenter(iw, ih, rw, rh, t) ==
    IF iw = 0 \/ ih = 0
    THEN t
    ELSE LET scaleX == Div(Num(rw), Num(iw))
             scaleY == Div(Num(rh), Num(ih))
         IN  [scale   |-> MathMin(scaleX, scaleY),
              offsetX |-> Num(0),
              offsetY |-> Num(0)]

\* function resetView(): the transform it leaves, given the canonical size
\* (iw, ih), the first canvas's rect (rw, rh) and the current transform t.
resetView(iw, ih, rw, rh, t) ==
    IF iw = 0 \/ ih = 0
    THEN t
    ELSE LET scaleX == Div(Num(rw), Num(iw))
             scaleY == Div(Num(rh), Num(ih))
             sc == MathMin(scaleX, scaleY)
         IN  [scale   |-> sc,
              offsetX |-> Div(Sub(Num(rw), Mul(Num(iw), sc)), Num(2)),
              offsetY |-> Div(Sub(Num(rh), Mul(Num(ih), sc)), Num(2))]

\* drawOne without its second ctx.setTransform: the image is drawn untransformed.
drawOneUntransformed(img, t) ==
    IF img.id = 0
    THEN [img |-> 0, scale |-> Num(1), offsetX |-> Num(0), offsetY |-> Num(0)]
    ELSE [img |-> img.id, scale |-> Num(1), offsetX |-> Num(0), offsetY |-> Num(0)]

\* function drawOne(ctx, canvas, img): what the canvas shows afterwards
drawOne(img, t) ==
    IF img.id = 0
    THEN Cleared
    ELSE [img |-> img.id, scale |-> t.scale, offsetX |-> t.offsetX, offsetY |-> t.offsetY]

\* function draw(): every canvas redrawn with the transform t
draw(imgs, t) == [s \in DOMAIN imgs |-> drawOne(imgs[s], t)]

Transform == [scale |-> scale, offsetX |-> offsetX, offsetY |-> offsetY]

SetView(t) ==
    /\ scale' = t.scale
    /\ offsetX' = t.offsetX
    /\ offsetY' = t.offsetY

\* setLoadedImage without the size comparison: every image is stored.
setLoadedImageNoCheck(img, side) ==
    LET unset == imgWidth = 0 \/ imgHeight = 0
    IN  /\ imgWidth' = IF unset THEN img.width ELSE imgWidth
        /\ imgHeight' = IF unset THEN img.height ELSE imgHeight
        /\ images' = [images EXCEPT ![side] = img]
        /\ SetView(resetView(imgWidth', imgHeight', rectW, rectH, Transform))
        /\ drawn' = draw(images', [scale |-> scale', offsetX |-> offsetX',
                                   offsetY |-> offsetY'])

\* setLoadedImage storing the image before it compares the sizes.
setLoadedImageAssignFirst(img, side) ==
    LET unset == imgWidth = 0 \/ imgHeight = 0
    IN  /\ images' = [images EXCEPT ![side] = img]
        /\ IF ~unset /\ (img.width # imgWidth \/ img.height # imgHeight)
           THEN UNCHANGED <<imgWidth, imgHeight, scale, offsetX, offsetY, drawn>>
           ELSE /\ imgWidth' = IF unset THEN img.width ELSE imgWidth
                /\ imgHeight' = IF unset THEN img.height ELSE imgHeight
                /\ SetView(resetView(imgWidth', imgHeight', rectW, rectH, Transform))
                /\ drawn' = draw(images', [scale |-> scale', offsetX |-> offsetX',
                                           offsetY |-> offsetY'])

\* setLoadedImage taking "no size yet" from the target slot being empty.
setLoadedImagePerSlot(img, side) ==
    LET unset == images[side].id = 0
    IN  IF ~unset /\ (img.width # imgWidth \/ img.height # imgHeight)
        THEN UNCHANGED <<images, imgWidth, imgHeight, scale, offsetX, offsetY, drawn>>
        ELSE /\ imgWidth' = IF unset THEN img.width ELSE imgWidth
             /\ imgHeight' = IF unset THEN img.height ELSE imgHeight
             /\ images' = [images EXCEPT ![side] = img]
             /\ SetView(resetView(imgWidth', imgHeight', rectW, rectH, Transform))
             /\ drawn' = draw(images', [scale |-> scale', offsetX |-> offsetX',
                                        offsetY |-> offsetY'])

\* setLoadedImage behind a per-slot generation check: the image of a load is
\* dropped when a later load of the same slot has been started.
setLoadedImageGeneration(img, side) ==
    LET unset == imgWidth = 0 \/ imgHeight = 0
        stale == \E j \in 1..Len(loads) : j > img.id /\ loads[j].side = side
    IN  IF stale \/ (~unset /\ (img.width # imgWidth \/ img.height # imgHeight))
        THEN UNCHANGED <<images, imgWidth, imgHeight, scale, offsetX, offsetY, drawn>>
        ELSE /\ imgWidth' = IF unset THEN img.width ELSE imgWidth
             /\ imgHeight' = IF unset THEN img.height ELSE imgHeight
             /\ images' = [images EXCEPT ![side] = img]
             /\ SetView(resetView(imgWidth', imgHeight', rectW, rectH, Transform))
             /\ drawn' = draw(images', [scale |-> scale', offsetX |-> offsetX',
                                        offsetY |-> offsetY'])

\* setLoadedImage taking the size anew when no other slot holds an image.
setLoadedImageSoleSlot(img, side) ==
    LET unset == \A s \in DOMAIN images : s # side => images[s].id = 0
    IN  IF ~unset /\ (img.width # imgWidth \/ img.height # imgHeight)
        THEN UNCHANGED <<images, imgWidth, imgHeight, scale, offsetX, offsetY, drawn>>
        ELSE /\ imgWidth' = IF unset THEN img.width ELSE imgWidth
             /\ imgHeight' = IF unset THEN img.height ELSE imgHeight
             /\ images' = [images EXCEPT ![side] = img]
             /\ SetView(resetView(imgWidth', imgHeight', rectW, rectH, Transform))
             /\ drawn' = draw(images', [scale |-> scale', offsetX |-> offsetX',
                                        offsetY |-> offsetY'])

\* function setLoadedImage(img, side)
setLoadedImage(img, side) ==
    LET w == img.width
        h == img.height
        unset == imgWidth = 0 \/ imgHeight = 0
    IN  IF ~unset /\ (w # imgWidth \/ h # imgHeight)
        THEN \* alert(...); return
             UNCHANGED <<images, imgWidth, imgHeight, scale, offsetX, offsetY, drawn>>
        ELSE /\ imgWidth' = IF unset THEN w ELSE imgWidth
             /\ imgHeight' = IF unset THEN h ELSE imgHeight
             /\ images' = [images EXCEPT ![side] = img]
             /\ SetView(resetView(imgWidth', imgHeight', rectW, rectH, Transform))
             /\ drawn' = draw(images', [scale |-> scale', offsetX |-> offsetX',
                                        offsetY |-> offsetY'])

\* One more wheel, mouse, reset or resize event, within the bound.
Input == nIn + 1 <= MaxRuns /\ nIn' = nIn + 1

\* fileInputs[s] 'change' listener -> uploadAndLoad(file, side) up to its
\* await fetch(...)
uploadAndLoad(f, side) ==
    /\ nIn + 3 <= MaxRuns
    /\ nIn' = nIn + 3
    /\ loads' = Append(loads, [side |-> side, file |-> f, stage |-> "fetch"])
    /\ ev' = NoEvent
    /\ UNCHANGED server
    /\ UNCHANGED <<viewer, images, imgWidth, imgHeight, scale, offsetX, offsetY,
                   isPanning, lastX, lastY, rectW, rectH, drawn>>

\* uploadAndLoad without its if (!resp.ok) return: every answer is decoded.
fetchDoneNoCheck(i) ==
    /\ loads[i].stage = "fetch"
    /\ loads' = [loads EXCEPT ![i].stage = "decode"]
    /\ ev' = NoEvent
    /\ UNCHANGED server
    /\ UNCHANGED <<viewer, images, imgWidth, imgHeight, scale, offsetX, offsetY,
                   isPanning, lastX, lastY, rectW, rectH, drawn, nIn>>

\* uploadAndLoad after await fetch(...): !resp.ok -> alert and return;
\* otherwise the blob is handed to a new Image (img.src = url).
fetchDone(i) ==
    /\ loads[i].stage = "fetch"
    /\ loads' = [loads EXCEPT ![i].stage = IF loads[i].file.ok THEN "decode" ELSE "failed"]
    /\ ev' = NoEvent
    /\ UNCHANGED server
    /\ UNCHANGED <<viewer, images, imgWidth, imgHeight, scale, offsetX, offsetY,
                   isPanning, lastX, lastY, rectW, rectH, drawn, nIn>>

\* img.onload = () => { setLoadedImage(img, side); ... }
imgOnload(i) ==
    /\ loads[i].stage = "decode"
    /\ setLoadedImage(ImageOf(i), loads[i].side)
    /\ loads' = [loads EXCEPT ![i].stage =
                    IF images'[loads[i].side] = ImageOf(i) THEN "accepted" ELSE "rejected"]
    /\ ev' = NoEvent
    /\ UNCHANGED server
    /\ UNCHANGED <<viewer, isPanning, lastX, lastY, rectW, rectH, nIn>>

----------------------------------------------------------------------------
\* function getCanvasCoords(canvas, event), o the canvas's rect.left, rect.top
getCanvasCoords(o, c) == <<c[1] - o[1], c[2] - o[2]>>

HasImage == imgWidth # 0 /\ imgHeight # 0

\* the range check without its lower half
outOfRangeUpperOnly(newScale) == Less(maxScale, newScale)

\* handleWheel: if (newScale < minScale || newScale > maxScale) return;
outOfRange(newScale) == Less(newScale, minScale) \/ Less(maxScale, newScale)

\* zoomAt with the offsets computed before scale is assigned (old scale)
zoomAtStaleScale(x, y, t, newScale) ==
    LET worldX == Div(Sub(Num(x), t.offsetX), t.scale)
        worldY == Div(Sub(Num(y), t.offsetY), t.scale)
    IN  [scale   |-> newScale,
         offsetX |-> Sub(Num(x), Mul(worldX, t.scale)),
         offsetY |-> Sub(Num(y), Mul(worldY, t.scale))]

\* handleWheel: worldX, worldY, scale = newScale, offsetX = x - worldX * scale, ...
zoomAt(x, y, t, newScale) ==
    LET worldX == Div(Sub(Num(x), t.offsetX), t.scale)
        worldY == Div(Sub(Num(y), t.offsetY), t.scale)
    IN  [scale   |-> newScale,
         offsetX |-> Sub(Num(x), Mul(worldX, newScale)),
         offsetY |-> Sub(Num(y), Mul(worldY, newScale))]

\* function handleWheel(canvas, event); zoomIn is event.deltaY < 0
handleWheel(o, c, zoomIn) ==
    LET p == getCanvasCoords(o, c)
        zoomFactor == IF zoomIn THEN zoomInFactor ELSE zoomOutFactor
        newScale == Mul(scale, zoomFactor)
    IN  /\ Input
        /\ ev' = WheelEvent(zoomIn)
        /\ IF ~HasImage \/ outOfRange(newScale)
           THEN UNCHANGED <<scale, offsetX, offsetY, drawn>>
           ELSE /\ SetView(zoomAt(p[1], p[2], Transform, newScale))
                /\ drawn' = draw(images, [scale |-> scale', offsetX |-> offsetX',
                                          offsetY |-> offsetY'])
        /\ UNCHANGED server
        /\ UNCHANGED <<viewer, images, imgWidth, imgHeight, isPanning, lastX, lastY,
                       rectW, rectH, loads>>

\* The position a mouse handler reads off the event: event.clientX/clientY in
\* app.py, getCanvasCoords(canvas, event) in _app.py.
mousePos(o, c) == IF viewer = "app" THEN c ELSE getCanvasCoords(o, c)

\* handleMouseDown without its if (!imgWidth || !imgHeight) return
handleMouseDownNoGuard(o, c) ==
    /\ Input
    /\ ev' = NoEvent
    /\ isPanning' = TRUE
    /\ lastX' = mousePos(o, c)[1]
    /\ lastY' = mousePos(o, c)[2]
    /\ UNCHANGED server
    /\ UNCHANGED <<viewer, images, imgWidth, imgHeight, scale, offsetX, offsetY,
                   rectW, rectH, drawn, loads>>

\* function handleMouseDown
handleMouseDown(o, c) ==
    /\ Input
    /\ ev' = NoEvent
    /\ IF ~HasImage
       THEN UNCHANGED <<isPanning, lastX, lastY>>
       ELSE /\ isPanning' = TRUE
            /\ lastX' = mousePos(o, c)[1]
            /\ lastY' = mousePos(o, c)[2]
    /\ UNCHANGED server
    /\ UNCHANGED <<viewer, images, imgWidth, imgHeight, scale, offsetX, offsetY,
                   rectW, rectH, drawn, loads>>

\* pan keeping the image's top-left corner at or after the canvas's
panClamped(t, dx, dy) ==
    LET x == Add(t.offsetX, Num(dx))
        y == Add(t.offsetY, Num(dy))
    IN  [scale   |-> t.scale,
         offsetX |-> IF Less(x, Num(0)) THEN Num(0) ELSE x,
         offsetY |-> IF Less(y, Num(0)) THEN Num(0) ELSE y]

\* handleMouseMove: offsetX += dx; offsetY += dy
pan(t, dx, dy) ==
    [scale   |-> t.scale,
     offsetX |-> Add(t.offsetX, Num(dx)),
     offsetY |-> Add(t.offsetY, Num(dy))]

\* function handleMouseMove
handleMouseMove(o, c) ==
    LET p == mousePos(o, c)
        dx == p[1] - lastX
        dy == p[2] - lastY
    IN  /\ Input
        /\ ev' = NoEvent
        /\ IF ~isPanning
           THEN UNCHANGED <<lastX, lastY, scale, offsetX, offsetY, drawn>>
           ELSE /\ lastX' = p[1]
                /\ lastY' = p[2]
                /\ SetView(pan(Transform, dx, dy))
                /\ drawn' = draw(images, [scale |-> scale', offsetX |-> offsetX',
                                          offsetY |-> offsetY'])
        /\ UNCHANGED server
        /\ UNCHANGED <<viewer, images, imgWidth, imgHeight, isPanning, rectW, rectH,
                       loads>>

\* function handleMouseUp (window 'mouseup')
handleMouseUp ==
    /\ Input
    /\ ev' = NoEvent
    /\ isPanning' = FALSE
    /\ UNCHANGED server
    /\ UNCHANGED <<viewer, images, imgWidth, imgHeight, scale, offsetX, offsetY,
                   lastX, lastY, rectW, rectH, drawn, loads>>

\* _app.py: canvas.addEventListener('mouseleave', handleMouseUp)
mouseLeave ==
    /\ viewer = "_app"
    /\ Input
    /\ ev' = NoEvent
    /\ isPanning' = FALSE
    /\ UNCHANGED server
    /\ UNCHANGED <<viewer, images, imgWidth, imgHeight, scale, offsetX, offsetY,
                   lastX, lastY, rectW, rectH, drawn, loads>>

\* app.py: btnReset 'click' listener: resetView(); draw();
resetClick ==
    /\ viewer = "app"
    /\ Input
    /\ ev' = NoEvent
    /\ SetView(resetView(imgWidth, imgHeight, rectW, rectH, Transform))
    /\ drawn' = draw(images, [scale |-> scale', offsetX |-> offsetX',
                              offsetY |-> offsetY'])
    /\ UNCHANGED server
    /\ UNCHANGED <<viewer, images, imgWidth, imgHeight, isPanning, lastX, lastY,
                   rectW, rectH, loads>>

\* window 'resize' listener, the window having taken the layout a:
\*   app.py:  if (imgWidth && imgHeight) resetView(); draw();
\*   _app.py: if (imgWidth && imgHeight) draw(); else resizeCanvases();
windowResize(a) ==
    /\ <<rectW, rectH>> # a
    /\ Input
    /\ rectW' = a[1]
    /\ rectH' = a[2]
    /\ ev' = NoEvent
    /\ IF viewer = "app"
       THEN SetView(resetView(imgWidth, imgHeight, rectW', rectH', Transform))
       ELSE UNCHANGED <<scale, offsetX, offsetY>>
    /\ drawn' = draw(images, [scale |-> scale', offsetX |-> offsetX',
                              offsetY |-> offsetY'])
    /\ UNCHANGED server
    /\ UNCHANGED <<viewer, images, imgWidth, imgHeight, isPanning, lastX, lastY,
                   loads>>

----------------------------------------------------------------------------
Next ==
    \/ \E f \in Files, s \in inputs(viewer) : uploadAndLoad(f, s)
    \/ \E i \in 1..Len(loads) : fetchDone(i)
    \/ \E i \in 1..Len(loads) : imgOnload(i)
    \/ \E o \in Origins, c \in Clients, z \in BOOLEAN : handleWheel(o, c, z)
    \/ \E o \in Origins, c \in Clients : handleMouseDown(o, c)
    \/ \E o \in Origins, c \in Clients : handleMouseMove(o, c)
    \/ handleMouseUp
    \/ mouseLeave
    \/ resetClick
    \/ \E a \in Areas : windowResize(a)

Spec == Init /\ [][Next]_vars

----------------------------------------------------------------------------
\* The Flask process on its own: requests arrive one after the other and
\* upload(side) answers each. Nothing of the process outlives a request.

\* The handler computes its answer from the request alone, so what it
\* computes for each upload is tabulated once: tried[k][u] are the values of the
\* try block and answered[k][u][side] is the response.
tried ==
    [k \in DOMAIN Uploads |-> [u \in NaNCasts |-> uploadTry(Uploads[k], u)]]

answered ==
    [k \in DOMAIN Uploads |->
        [u \in NaNCasts |-> [s \in sides("app") |-> upload(s, Uploads[k], u)]]]

\* a POST /api/upload/<side> arrives, carrying the upload numbered k
post(side, k) ==
    /\ request = NoRequest \/ response # NoResponse
    /\ request' = [side |-> side, file |-> k]
    /\ response' = NoResponse
    /\ pipe' = NoPipe
    /\ UNCHANGED first
    /\ UNCHANGED <<viewer, images, imgWidth, imgHeight, scale, offsetX, offsetY,
                   isPanning, lastX, lastY, rectW, rectH, drawn, loads, nIn, ev>>

\* the body of upload(side) run on the request, u the byte a cast of NaN gives
uploadRun(u) ==
    /\ request # NoRequest
    /\ response = NoResponse
    /\ response' = answered[request.file][u][request.side]
    /\ pipe' = IF Uploads[request.file].hasFile /\ Uploads[request.file].filename # ""
               THEN tried[request.file][u] ELSE NoPipe
    /\ first' = IF first = NoRequest
                THEN [side |-> request.side, file |-> request.file,
                      status |-> response'.status, text |-> response'.text,
                      mode |-> response'.png.mode, width |-> response'.png.width,
                      height |-> response'.png.height]
                ELSE first
    /\ UNCHANGED request
    /\ UNCHANGED <<viewer, images, imgWidth, imgHeight, scale, offsetX, offsetY,
                   isPanning, lastX, lastY, rectW, rectH, drawn, loads, nIn, ev>>

NextServer ==
    \/ \E s \in inputs(viewer), k \in DOMAIN Uploads : post(s, k)
    \/ \E u \in NaNCasts : uploadRun(u)

\* The Python half is the same code in app.py and in _app.py; the process is
\* explored serving the page of app.py.
InitServer == Init /\ viewer = "app"

SpecServer == InitServer /\ [][NextServer]_vars

----------------------------------------------------------------------------
\* Vocabulary of the properties.

Populated(s) == images[s].id # 0

\* the loads whose img.onload has run
Completed == { i \in 1..Len(loads) : loads[i].stage \in {"accepted", "rejected"} }

\* the step is the img.onload of load i
OnloadStep(i) == loads[i].stage = "decode" /\ loads'[i].stage # "decode"

\* load i's image disagrees with the canonical size established before it
Mismatch(i) ==
    HasImage /\ (loads[i].file.width # imgWidth \/ loads[i].file.height # imgHeight)

\* the step is the handling of a wheel event (recorded in ev')
WheelStep == ev'.kind = "wheel" /\ nIn' = nIn + 1

Candidate(z) == Mul(scale, IF z THEN zoomInFactor ELSE zoomOutFactor)

InRange(sc) == ~Less(sc, minScale) /\ ~Less(maxScale, sc)

\* fit-to-area of a w x h image in the current rect
FitScale(w, h) == MathMin(Div(Num(rectW), Num(w)), Div(Num(rectH), Num(h)))
FitOffsetX(w, h) == Div(Sub(Num(rectW), Mul(Num(w), FitScale(w, h))), Num(2))
FitOffsetY(w, h) == Div(Sub(Num(rectH), Mul(Num(h), FitScale(w, h))), Num(2))

\* a value is an array, not an exception and not None
IsArray(x) == "shape" \in DOMAIN x

\* a value is what Image.fromarray and img.save made
IsImage(x) == "mode" \in DOMAIN x

\* the request received last has been answered
Answered == response # NoResponse

\* the least and the greatest element of an array of integers
MinOf(a) == CHOOSE m \in { a.at[i][1] : i \in DOMAIN a.at } :
                \A i \in DOMAIN a.at : m <= a.at[i][1]
MaxOf(a) == CHOOSE m \in { a.at[i][1] : i \in DOMAIN a.at } :
                \A i \in DOMAIN a.at : m >= a.at[i][1]

Min3(c) == IF c < 3 THEN c ELSE 3

\* a w x h image drawn under the transform (sc, ox, oy) lies within an
\* rw x rh area with equal margins left and right, and above and below, and
\* spans the area on one axis
Centered(w, h, sc, ox, oy, rw, rh) ==
    LET right == Add(ox, Mul(Num(w), sc))
        bottom == Add(oy, Mul(Num(h), sc))
    IN  /\ ~Less(ox, Num(0))
        /\ ~Less(oy, Num(0))
        /\ ~Less(Num(rw), right)
        /\ ~Less(Num(rh), bottom)
        /\ ox = Sub(Num(rw), right)
        /\ oy = Sub(Num(rh), bottom)
        /\ ox = Num(0) \/ oy = Num(0)

InsideAndCentered ==
    Centered(imgWidth, imgHeight, scale, offsetX, offsetY, rectW, rectH)

----------------------------------------------------------------------------
\* C1: every populated slot holds an image of exactly the canonical size; a
\* slot is never populated while the canonical size is unset, and no two
\* populated slots hold images of different sizes.
C1_UniformDimensions ==
    /\ \A s \in DOMAIN images :
          Populated(s) => /\ HasImage
                          /\ images[s].width = imgWidth
                          /\ images[s].height = imgHeight
    /\ \A s, t \in DOMAIN images :
          Populated(s) /\ Populated(t) =>
              images[s].width = images[t].width /\ images[s].height = images[t].height

\* Two slots are populated and a gesture has been handled.
C1_Witness ==
    /\ \E s, t \in DOMAIN images : s # t /\ Populated(s) /\ Populated(t)
    /\ nIn > 3 * Len(loads)

\* C2: the img.onload of a load whose image disagrees with the established
\* canonical size leaves every slot and the canonical size as they were.
C2_RejectedLoadChangesNothing ==
    [][\A i \in 1..Len(loads) :
          OnloadStep(i) /\ Mismatch(i) =>
              /\ images' = images
              /\ imgWidth' = imgWidth
              /\ imgHeight' = imgHeight]_vars

\* Slot A holds the first image, the load into slot B was rejected and B is
\* still empty.
C2_Witness ==
    \E i \in 1..Len(loads) :
        /\ loads[i].stage = "rejected"
        /\ ~Populated(loads[i].side)
        /\ \E s \in DOMAIN images : Populated(s)
        /\ imgWidth # loads[i].file.width

\* C3: the shared scale always lies within [0.05, 20].
C3_ScaleInRange == InRange(scale)

\* C4 as stated: a wheel event whose candidate scale is outside [0.05, 20]
\* changes nothing, and one whose candidate is inside is always committed.
C4_ZoomCommittedWheneverInRange ==
    [][WheelStep =>
          IF InRange(Candidate(ev'.zoomIn))
          THEN scale' = Candidate(ev'.zoomIn)
          ELSE UNCHANGED <<scale, offsetX, offsetY>>]_vars

\* C4 amended: once an image is loaded, a wheel event whose candidate scale is
\* outside [0.05, 20] changes nothing and one whose candidate is inside is
\* committed; before any load is accepted a wheel event changes nothing.
C4_ZoomRange ==
    [][WheelStep =>
          IF HasImage /\ InRange(Candidate(ev'.zoomIn))
          THEN scale' = Candidate(ev'.zoomIn)
          ELSE UNCHANGED <<scale, offsetX, offsetY>>]_vars

\* A zoom-in at scale 19 (candidate 20.9) has just been turned down.
C4_Witness ==
    /\ HasImage
    /\ ev.kind = "wheel"
    /\ ev.zoomIn
    /\ scale = Num(19)

\* C5: an accepted zoom at the cursor (x, y) keeps the world point under the
\* cursor where it was: (x - offsetX') / scale' = (x - offsetX) / scale, and
\* likewise for y.
C5_CursorAnchored ==
    [][\A o \in Origins, c \in Clients, z \in BOOLEAN :
          handleWheel(o, c, z) /\ scale' # scale =>
              LET x == getCanvasCoords(o, c)[1]
                  y == getCanvasCoords(o, c)[2]
              IN  /\ Div(Sub(Num(x), offsetX'), scale') = Div(Sub(Num(x), offsetX), scale)
                  /\ Div(Sub(Num(y), offsetY'), scale') = Div(Sub(Num(y), offsetY), scale)]_vars

\* Two zooms in a row (in, then out, from the fit scale 3) have been accepted.
C5_Witness ==
    /\ ev.kind = "wheel"
    /\ scale = <<297, 100>>

\* C6: when the most recently started load of a slot has been accepted, the
\* slot holds its image: an older load's result arriving later is discarded.
C6_StaleResultDiscarded ==
    \A i \in 1..Len(loads) :
        (/\ loads[i].stage = "accepted"
         /\ \A j \in 1..Len(loads) : j > i => loads[j].side # loads[i].side)
        => images[loads[i].side].id = i

\* C7: when the first two completed loads target different slots with images
\* of different sizes, exactly one is accepted: it holds its slot and its size
\* is the canonical size, and the other's slot is still empty.
C7_AtomicEstablishment ==
    \A i, j \in Completed :
        (/\ Completed = {i, j}
         /\ loads[i].side # loads[j].side
         /\ <<loads[i].file.width, loads[i].file.height>> #
                <<loads[j].file.width, loads[j].file.height>>)
        => \E a, r \in {i, j} :
              /\ a # r
              /\ loads[a].stage = "accepted"
              /\ loads[r].stage = "rejected"
              /\ imgWidth = loads[a].file.width
              /\ imgHeight = loads[a].file.height
              /\ images[loads[a].side].id = a
              /\ ~Populated(loads[r].side)

\* Both first loads, of different sizes and into different slots, have completed.
C7_Witness ==
    \E i, j \in Completed :
        /\ Completed = {i, j}
        /\ loads[i].side # loads[j].side
        /\ loads[i].file.width # loads[j].file.width

\* C8: the img.onload of a load that passes the dimension check always stores
\* its image in the slot, whatever was started or completed before it, so the
\* slot holds the result of the load that completed last.
C8_LastWriteWins ==
    [][\A i \in 1..Len(loads) :
          OnloadStep(i) /\ ~Mismatch(i) => images'[loads[i].side].id = i]_vars

\* Two loads into one slot were both accepted and the slot holds the one
\* started first, which therefore completed last.
C8_Witness ==
    \E i, j \in 1..Len(loads) :
        /\ i < j
        /\ loads[i].side = loads[j].side
        /\ loads[i].stage = "accepted"
        /\ loads[j].stage = "accepted"
        /\ images[loads[i].side].id = i

\* C9: an accepted load stores its image and leaves the transform at
\* fit-to-area for the canonical size; a rejected load leaves the transform
\* as it was.
C9_AcceptedLoadFits ==
    [][\A i \in 1..Len(loads) :
          OnloadStep(i) =>
              IF Mismatch(i)
              THEN UNCHANGED <<scale, offsetX, offsetY>>
              ELSE /\ images'[loads[i].side].id = i
                   /\ scale' = FitScale(imgWidth', imgHeight')
                   /\ offsetX' = FitOffsetX(imgWidth', imgHeight')
                   /\ offsetY' = FitOffsetY(imgWidth', imgHeight')]_vars

\* A second load was accepted after a gesture, and the transform is the fit.
C9_Witness ==
    /\ Cardinality({ i \in 1..Len(loads) : loads[i].stage = "accepted" }) = 2
    /\ nIn > 3 * Len(loads)
    /\ ev.kind = "none"
    /\ scale = FitScale(imgWidth, imgHeight)
    /\ offsetX = FitOffsetX(imgWidth, imgHeight)
    /\ offsetY = FitOffsetY(imgWidth, imgHeight)
    /\ offsetY # Num(0)

\* C10: between handlers every canvas shows its slot's current image under
\* the current shared transform (an empty slot's canvas is cleared), so no two
\* panels are displayed with different transforms.
C10_RedrawReflectsState ==
    \A s \in DOMAIN images :
        IF Populated(s)
        THEN drawn[s] = [img |-> images[s].id, scale |-> scale,
                         offsetX |-> offsetX, offsetY |-> offsetY]
        ELSE drawn[s].img = 0

\* Two panels show images after a zoom or pan moved the transform off the fit.
C10_Witness ==
    /\ \E s, t \in DOMAIN images : s # t /\ Populated(s) /\ Populated(t)
    /\ scale # FitScale(imgWidth, imgHeight)

\* C11: no step of a load whose upload the server answers with an error (its
\* start, the return of its fetch) changes the transform, the canonical size
\* or any slot, and such a load never gets as far as decoding an image.
C11_FailedLoadChangesNothing ==
    [][\A i \in 1..Len(loads') :
          (~loads'[i].file.ok /\ (i > Len(loads) \/ loads'[i] # loads[i])) =>
              /\ UNCHANGED <<images, imgWidth, imgHeight, scale, offsetX, offsetY>>
              /\ loads'[i].stage \in {"fetch", "failed"}]_vars

\* A load into a populated slot has failed, after a gesture moved the
\* transform off the fit.
C11_Witness ==
    \E i \in 1..Len(loads) :
        /\ loads[i].stage = "failed"
        /\ Populated(loads[i].side)
        /\ scale # FitScale(imgWidth, imgHeight)

\* C12: the canonical size is set by the first accepted load to that image's
\* width and height, by nothing else, and once set no step changes it.
C12_CanonicalImmutable ==
    [][/\ HasImage => imgWidth' = imgWidth /\ imgHeight' = imgHeight
       /\ ~HasImage =>
             \/ imgWidth' = imgWidth /\ imgHeight' = imgHeight
             \/ \E i \in 1..Len(loads) :
                   /\ OnloadStep(i)
                   /\ loads'[i].stage = "accepted"
                   /\ imgWidth' = loads[i].file.width
                   /\ imgHeight' = loads[i].file.height
       /\ \A i \in 1..Len(loads) :
             OnloadStep(i) /\ ~HasImage =>
                 imgWidth' = loads[i].file.width /\ imgHeight' = loads[i].file.height]_vars

\* A load of another size into the only populated slot has been rejected,
\* and a gesture has been handled.
C12_Witness ==
    \E i \in 1..Len(loads) :
        /\ loads[i].stage = "rejected"
        /\ Populated(loads[i].side)
        /\ \A s \in DOMAIN images : Populated(s) => s = loads[i].side
        /\ nIn > 3 * Len(loads)

C14_ResizeRefits ==
    [][(<<rectW', rectH'>> # <<rectW, rectH>> /\ HasImage) =>
          LET sc == MathMin(Div(Num(rectW'), Num(imgWidth)),
                            Div(Num(rectH'), Num(imgHeight)))
          IN  /\ scale' = sc
              /\ offsetX' = Div(Sub(Num(rectW'), Mul(Num(imgWidth), sc)), Num(2))
              /\ offsetY' = Div(Sub(Num(rectH'), Mul(Num(imgHeight), sc)), Num(2))]_vars

\* C15: select_display_array returns for every decoded array, and what it
\* returns has rank 2, or rank 3 with a last axis of at most 4.
C15_ResolveTotal ==
    IsArray(pipe.arr) =>
        /\ IsArray(pipe.arr_disp)
        /\ \/ ndim(pipe.arr_disp) = 2
           \/ ndim(pipe.arr_disp) = 3 /\ pipe.arr_disp.shape[3] <= 4

\* C16: a rank-3 array (C, H, W) with C <= 16 and H = W is read as
\* channel-first whatever its last axis: the (H, W) plane of channel 0 when
\* C = 1, and otherwise (H, W, min(C, 3)) with channel k of the result the
\* input's channel k.
C16_ChannelFirstPrecedence ==
    (/\ IsArray(pipe.arr)
     /\ ndim(pipe.arr) = 3
     /\ pipe.arr.shape[1] <= 16
     /\ pipe.arr.shape[2] = pipe.arr.shape[3]) =>
        LET C == pipe.arr.shape[1]
            H == pipe.arr.shape[2]
            W == pipe.arr.shape[3]
            d == pipe.arr_disp
        IN  /\ IsArray(d)
            /\ IF C = 1
               THEN /\ d.shape = <<H, W>>
                    /\ \A h \in 0..(H - 1), w \in 0..(W - 1) :
                          d.at[<<h, w>>] = pipe.arr.at[<<0, h, w>>]
               ELSE /\ d.shape = <<H, W, Min3(C)>>
                    /\ \A h \in 0..(H - 1), w \in 0..(W - 1), k \in 0..(Min3(C) - 1) :
                          d.at[<<h, w, k>>] = pipe.arr.at[<<k, h, w>>]

\* The (5, 2, 2) array, whose last axis is at most 4 as well, has been
\* resolved to (2, 2, 3).
C16_Witness ==
    /\ IsArray(pipe.arr)
    /\ pipe.arr.shape = <<5, 2, 2>>
    /\ IsArray(pipe.arr_disp)
    /\ pipe.arr_disp.shape = <<2, 2, 3>>

\* C17: normalize_to_uint8 of a non-empty array of 16- or 32-bit integers has
\* the same shape and elements in 0..255: all 0 when the input's elements are
\* all equal, and otherwise 255 * (x - min) / (max - min) with the fraction
\* dropped for each element x.
C17_NormalizeRescales ==
    (/\ IsArray(pipe.arr_disp)
     /\ pipe.arr_disp.dtype \in {"uint16", "int16", "int32"}
     /\ size(pipe.arr_disp) >= 1) =>
        LET a == pipe.arr_disp
            lo == MinOf(a)
            hi == MaxOf(a)
        IN  /\ IsArray(pipe.raster)
            /\ pipe.raster.shape = a.shape
            /\ \A i \in DOMAIN a.at :
                  /\ pipe.raster.at[i][2] = 1
                  /\ pipe.raster.at[i][1] \in 0..255
                  /\ pipe.raster.at[i][1] =
                        IF lo = hi THEN 0 ELSE (255 * (a.at[i][1] - lo)) \div (hi - lo)

\* C18: normalize_to_uint8 gives a raster of bytes for every array that has
\* elements, and for an array without elements it gives no raster but an
\* error (the exception it ends with is counted as that signal), and the
\* upload is answered with a rejection.
C18_NormalizeSignalsEmpty ==
    IsArray(pipe.arr_disp) =>
        IF size(pipe.arr_disp) = 0
        THEN ~IsArray(pipe.raster) /\ response.status # 200
        ELSE /\ IsArray(pipe.raster)
             /\ pipe.raster.dtype = "uint8"
             /\ \A i \in DOMAIN pipe.raster.at :
                   pipe.raster.at[i][2] = 1 /\ pipe.raster.at[i][1] \in 0..255

\* C19: array_to_png_bytes makes an image of every raster: "L" of a rank-2
\* raster, "RGB" / "RGBA" of a rank-3 raster with last axis 3 / 4, and "L"
\* of any other shape.
C19_EncodeByShape ==
    IsArray(pipe.raster) =>
        LET r == pipe.raster
        IN  /\ IsImage(pipe.png_buf)
            /\ pipe.png_buf.mode =
                  IF ndim(r) = 3 /\ r.shape[3] = 3 THEN "RGB"
                  ELSE IF ndim(r) = 3 /\ r.shape[3] = 4 THEN "RGBA" ELSE "L"

\* C20: every request is answered: 400 "No file uploaded" without a file
\* part, 400 "No filename" for an empty name, 500 with the exception's text
\* when the try block raised, and the PNG otherwise; and a request for the
\* upload the first request carried gets the outcome the first one got,
\* whatever the two slot names and whatever was asked in between.
C20_UploadOutcomes ==
    Answered =>
        LET f == Uploads[request.file]
        IN  /\ IF ~f.hasFile
               THEN response.status = 400 /\ response.text = "No file uploaded"
               ELSE IF f.filename = ""
               THEN response.status = 400 /\ response.text = "No filename"
               ELSE IF excOf(pipe) # ""
               THEN /\ response.status = 500
                    /\ response.text = "Error: " \o excOf(pipe)
                    /\ response.png = NoPng
               ELSE /\ response.status = 200
                    /\ IsImage(response.png)
                    /\ response.png = pipe.png_buf
            /\ first.file = request.file =>
                  /\ first.status = response.status
                  /\ first.text = response.text
                  /\ first.mode = response.png.mode
                  /\ first.width = response.png.width
                  /\ first.height = response.png.height

\* The upload of the first request has been posted again under the other
\* slot name, and again answered with 500.
C20_Witness ==
    /\ Answered
    /\ response.status = 500
    /\ first.file = request.file
    /\ first.side # request.side

\* C21: while no load has been accepted every slot is empty, no drag is in
\* progress and the transform is the initial one, scale 1 and offsets 0,
\* whatever events and failed or unfinished loads there have been.
C21_GesturesIgnoredBeforeLoad ==
    ~HasImage =>
        /\ scale = Num(1)
        /\ offsetX = Num(0)
        /\ offsetY = Num(0)
        /\ ~isPanning
        /\ \A s \in DOMAIN images : ~Populated(s)

\* No image yet, after a resize and a wheel event, with one load failed and
\* another still under way.
C21_Witness ==
    /\ ~HasImage
    /\ ev.kind = "wheel"
    /\ rectW # InitialArea[1]
    /\ \E i, j \in 1..Len(loads) :
          /\ loads[i].stage = "failed"
          /\ loads[j].stage \in {"fetch", "decode"}

\* C22: whenever an image is loaded, a zoom-in or a zoom-out from the
\* current scale is accepted.
C22_ZoomAvailable ==
    HasImage => InRange(Candidate(TRUE)) \/ InRange(Candidate(FALSE))

====
